---- MODULE Spec2Model ----
(***************************************************************************)
(* Model of plugins/modules/elastic_cluster_health.py: one run of main()   *)
(* (argument validation, library check, connect, the health request, the   *)
(* handling of its response, the exception handler) and the pure helper    *)
(* elastic_status.                                                         *)
(*                                                                         *)
(* Python values are tagged pairs <<type, text>> so that a native boolean  *)
(* True and the string "true" are different values that can be compared.   *)
(* Messages are sequences of text pieces: a '%s' substitution is the       *)
(* piece that was substituted.                                             *)
(***************************************************************************)
EXTENDS Integers, Sequences, FiniteSets, TLC

VARIABLES
    task_args,      \* the options the caller wrote in the task (Absent = not supplied)
    elastic_found,  \* import of the elasticsearch library succeeded
    pc,             \* position of main()
    module_params,  \* module.params after AnsibleModule's validation
    connects,       \* number of calls of elastic.connect()
    connected,      \* "no", "ok" or "raised": how elastic.connect() ended
    params,         \* the local dict 'params' of main()
    requests,       \* the params of every client.cluster.health call, in order
    response,       \* how the last client.cluster.health call ended
    excep,          \* <<>> or <<text>>: the exception on its way to the handler
    verdicts,       \* every exit_json / fail_json delivered, in order
    status_checks   \* results of elastic_status calls: <<desired, cluster, result>>

vars == <<task_args, elastic_found, pc, module_params, connects, connected,
          params, requests, response, excep, verdicts, status_checks>>

----------------------------------------------------------------------------
(* Python values *)

PyStr(s) == <<"str", s>>
PyBool(b) == <<"bool", IF b THEN "True" ELSE "False">>
PyNone == <<"NoneType", "None">>
Absent == <<"absent", "">>

----------------------------------------------------------------------------
(* The argument spec of main() *)

wait_for_events_values == {"immediate", "urgent", "high", "normal", "low", "languid"}

OptionNames ==
    {"level", "local", "master_timeout", "timeout", "wait_for_active_shards",
     "wait_for_events", "wait_for_no_initializing_shards",
     "wait_for_no_relocating_shards", "wait_for_nodes", "wait_for_status"}

BoolOptions ==
    {"local", "wait_for_no_initializing_shards", "wait_for_no_relocating_shards"}

\* choices = {} stands for "no choices given"; default = PyNone for "no default"
argument_spec ==
    [k \in OptionNames |->
        CASE k = "level" ->
                [type |-> "str", choices |-> {"cluster", "indicies", "shards"},
                 default |-> PyStr("cluster")]
          [] k = "local" ->
                [type |-> "bool", choices |-> {}, default |-> PyBool(FALSE)]
          [] k = "master_timeout" ->
                [type |-> "str", choices |-> {}, default |-> PyStr("30s")]
          [] k = "timeout" ->
                [type |-> "str", choices |-> {}, default |-> PyStr("30s")]
          [] k = "wait_for_active_shards" ->
                [type |-> "str", choices |-> {}, default |-> PyStr("0")]
          [] k = "wait_for_events" ->
                [type |-> "str", choices |-> wait_for_events_values, default |-> PyNone]
          [] k = "wait_for_no_initializing_shards" ->
                [type |-> "bool", choices |-> {}, default |-> PyBool(FALSE)]
          [] k = "wait_for_no_relocating_shards" ->
                [type |-> "bool", choices |-> {}, default |-> PyBool(FALSE)]
          [] k = "wait_for_nodes" ->
                [type |-> "str", choices |-> {}, default |-> PyNone]
          [] k = "wait_for_status" ->
                [type |-> "str", choices |-> {"green", "yellow", "red"},
                 default |-> PyNone]]

\* AnsibleModule(argument_spec=...): a supplied value must be one of the choices
ChoiceOk(k, v) ==
    \/ v = Absent
    \/ argument_spec[k].choices = {}
    \/ v[1] = "str" /\ v[2] \in argument_spec[k].choices

ArgsValid(args) == \A k \in OptionNames : ChoiceOk(k, args[k])

\* the first option (in a fixed order) whose value is not one of its choices
BadOption(args) ==
    IF ~ChoiceOk("level", args["level"]) THEN "level"
    ELSE IF ~ChoiceOk("wait_for_events", args["wait_for_events"]) THEN "wait_for_events"
    ELSE "wait_for_status"

\* module.params: every key of the argument spec, the default (None when there
\* is none) for an option that was not supplied
ModuleParams(args) ==
    [k \in OptionNames |->
        IF args[k] = Absent THEN argument_spec[k].default ELSE args[k]]

----------------------------------------------------------------------------
(* Messages and verdicts *)

MissingLibMsg == <<"Failed to import the required Python library (", "elasticsearch", ")">>
NoStatusMsg == <<"Elasticsearch health endpoint did not supply a status field.">>
GoodMsg == <<"Elasticsearch health is good.">>
ElasticErrorMsg(text) == <<"Elastic error: ", text>>
ChoiceMsg(k) == <<"value of ", k, " must be one of its choices">>

\* module.fail_json(msg=...): no 'changed' key is passed
fail_json(msg) == [kind |-> "fail_json", changed |-> "absent", msg |-> msg]
\* module.exit_json(changed=False, msg=...)
exit_json(changed, msg) == [kind |-> "exit_json", changed |-> changed, msg |-> msg]

----------------------------------------------------------------------------
(* The environment: what the caller writes and what the cluster answers *)

Errors == {"ConnectionError(refused)", "AuthenticationException(401)"}

Statuses == {"red", "yellow", "green"}

SuppliedValues(k) ==
    CASE k = "level" ->
            {Absent, PyStr("cluster"), PyStr("indicies"), PyStr("indices"),
             PyStr("shards"), PyStr("nodes")}
      [] k \in BoolOptions -> {Absent, PyBool(TRUE), PyBool(FALSE)}
      [] k = "wait_for_events" -> {Absent, PyStr("high")}
      [] k = "wait_for_nodes" -> {Absent, PyStr(">=10")}
      [] k = "wait_for_status" -> {Absent, PyStr("green"), PyStr("purple")}
      [] OTHER -> {Absent}

\* one record per way of writing the task: a record is a function on OptionNames
TaskArgs ==
    [level : SuppliedValues("level"),
     local : SuppliedValues("local"),
     master_timeout : SuppliedValues("master_timeout"),
     timeout : SuppliedValues("timeout"),
     wait_for_active_shards : SuppliedValues("wait_for_active_shards"),
     wait_for_events : SuppliedValues("wait_for_events"),
     wait_for_no_initializing_shards : SuppliedValues("wait_for_no_initializing_shards"),
     wait_for_no_relocating_shards : SuppliedValues("wait_for_no_relocating_shards"),
     wait_for_nodes : SuppliedValues("wait_for_nodes"),
     wait_for_status : SuppliedValues("wait_for_status")]

NoResponse == [kind |-> "none", keys |-> {}, status |-> "", text |-> ""]

\* a returned mapping is its key set and the value under "status" (if any)
HealthOutcomes ==
    {[kind |-> "return", keys |-> {"cluster_name", "status", "timed_out"},
      status |-> s, text |-> ""] : s \in Statuses}
    \cup {[kind |-> "return", keys |-> {"cluster_name", "timed_out"},
           status |-> "", text |-> ""]}
    \cup {[kind |-> "raise", keys |-> {}, status |-> "", text |-> e] : e \in Errors}

ConnectOutcomes ==
    {[kind |-> "return", text |-> ""]}
    \cup {[kind |-> "raise", text |-> e] : e \in Errors}

----------------------------------------------------------------------------
(* elastic_status *)

\* variant: the ranks of yellow and green exchanged
status_dict_swapped == [s \in Statuses |->
    CASE s = "red" -> 0 [] s = "yellow" -> 2 [] s = "green" -> 1]

status_dict == [s \in Statuses |->
    CASE s = "red" -> 0 [] s = "yellow" -> 1 [] s = "green" -> 2]

elastic_status(desired_status, cluster_status) ==
    IF status_dict[desired_status] <= status_dict[cluster_status]
    THEN TRUE
    ELSE FALSE

----------------------------------------------------------------------------
(* main() *)

Init ==
    /\ task_args \in TaskArgs
    /\ elastic_found \in BOOLEAN
    /\ pc = "construct"
    /\ module_params = [k \in OptionNames |-> PyNone]
    /\ connects = 0
    /\ connected = "no"
    /\ params = [k \in {} |-> PyNone]
    /\ requests = <<>>
    /\ response = NoResponse
    /\ excep = <<>>
    /\ verdicts = <<>>
    /\ status_checks = {}

\* variant: the run goes from validation straight to connecting
Construct_SkipLibCheck ==
    /\ pc = "construct"
    /\ IF ArgsValid(task_args)
       THEN /\ module_params' = ModuleParams(task_args)
            /\ pc' = "connect"
            /\ UNCHANGED verdicts
       ELSE /\ verdicts' = Append(verdicts, fail_json(ChoiceMsg(BadOption(task_args))))
            /\ pc' = "exited"
            /\ UNCHANGED module_params
    /\ UNCHANGED <<task_args, elastic_found, connects, connected, params,
                   requests, response, excep, status_checks>>

\* module = AnsibleModule(...): a value outside an option's choices ends the
\* run with fail_json
Construct ==
    /\ pc = "construct"
    /\ IF ArgsValid(task_args)
       THEN /\ module_params' = ModuleParams(task_args)
            /\ pc' = "check_lib"
            /\ UNCHANGED verdicts
       ELSE /\ verdicts' = Append(verdicts, fail_json(ChoiceMsg(BadOption(task_args))))
            /\ pc' = "exited"
            /\ UNCHANGED module_params
    /\ UNCHANGED <<task_args, elastic_found, connects, connected, params,
                   requests, response, excep, status_checks>>

\* variant: fail_json returns and the run goes on
CheckLib_NoExit ==
    /\ pc = "check_lib"
    /\ IF ~elastic_found
       THEN verdicts' = Append(verdicts, fail_json(MissingLibMsg))
       ELSE UNCHANGED verdicts
    /\ pc' = "connect"
    /\ UNCHANGED <<task_args, elastic_found, module_params, connects, connected,
                   params, requests, response, excep, status_checks>>

\* if not elastic_found: module.fail_json(...)   (fail_json ends the process)
CheckLib ==
    /\ pc = "check_lib"
    /\ IF ~elastic_found
       THEN /\ verdicts' = Append(verdicts, fail_json(MissingLibMsg))
            /\ pc' = "exited"
       ELSE /\ pc' = "connect"
            /\ UNCHANGED verdicts
    /\ UNCHANGED <<task_args, elastic_found, module_params, connects, connected,
                   params, requests, response, excep, status_checks>>

\* elastic = ElasticHelpers(module); client = elastic.connect()
Connect ==
    /\ pc = "connect"
    /\ connects' = connects + 1
    /\ \E out \in ConnectOutcomes :
          IF out.kind = "return"
          THEN /\ connected' = "ok"
               /\ pc' = "build"
               /\ UNCHANGED excep
          ELSE /\ connected' = "raised"
               /\ excep' = <<out.text>>
               /\ pc' = "except"
    /\ UNCHANGED <<task_args, elastic_found, module_params, params, requests,
                   response, verdicts, status_checks>>

\* the keys main() puts into params: two of them only if module.params has them
ParamKeys(mp) ==
    {"level", "local", "master_timeout", "timeout", "wait_for_active_shards",
     "wait_for_no_initializing_shards", "wait_for_no_relocating_shards",
     "wait_for_status"}
    \cup {k \in {"wait_for_events", "wait_for_nodes"} : k \in DOMAIN mp}

\* params = {}; params[k] = module.params[k] ...
BuildParams ==
    /\ pc = "build"
    /\ params' = [k \in ParamKeys(module_params) |-> module_params[k]]
    /\ pc' = "health"
    /\ UNCHANGED <<task_args, elastic_found, module_params, connects, connected,
                   requests, response, excep, verdicts, status_checks>>

\* variant: a request that raised is issued a second time
Health_Retry ==
    /\ pc = "health"
    /\ requests' = Append(requests, params)
    /\ \E out \in HealthOutcomes :
          /\ response' = out
          /\ IF out.kind = "return"
             THEN /\ pc' = "response"
                  /\ UNCHANGED excep
             ELSE IF Len(requests) = 0
             THEN /\ pc' = "health"
                  /\ UNCHANGED excep
             ELSE /\ excep' = <<out.text>>
                  /\ pc' = "except"
    /\ UNCHANGED <<task_args, elastic_found, module_params, connects, connected,
                   params, verdicts, status_checks>>

\* response = client.cluster.health(params=params)
Health ==
    /\ pc = "health"
    /\ requests' = Append(requests, params)
    /\ \E out \in HealthOutcomes :
          /\ response' = out
          /\ IF out.kind = "return"
             THEN /\ pc' = "response"
                  /\ UNCHANGED excep
             ELSE /\ excep' = <<out.text>>
                  /\ pc' = "except"
    /\ UNCHANGED <<task_args, elastic_found, module_params, connects, connected,
                   params, verdicts, status_checks>>

\* variant: no failure call and no status check before exit_json
ResponseStmts_NoStatusCheck(health_keys) ==
    << [line |-> 227, guard |-> TRUE,
        verdict |-> exit_json("False", GoodMsg)] >>

\* The statements after the health call, in order; health_keys is
\* health_data.keys().  A statement whose guard holds delivers its verdict.
ResponseStmts(health_keys) ==
    << [line |-> 216, guard |-> TRUE,
        verdict |-> fail_json(NoStatusMsg)],
       [line |-> 221, guard |-> "status" \notin health_keys,
        verdict |-> fail_json(NoStatusMsg)],
       [line |-> 227, guard |-> TRUE,
        verdict |-> exit_json("False", GoodMsg)] >>

\* fail_json and exit_json end the process (SystemExit is no Exception, so the
\* handler of main() does not catch it): the first statement whose guard holds
\* is the last one executed.
RECURSIVE RunStmts(_, _)
RunStmts(stmts, i) ==
    IF i > Len(stmts) THEN <<>>
    ELSE IF stmts[i].guard THEN <<stmts[i].verdict>>
    ELSE RunStmts(stmts, i + 1)

\* health_data = dict(response) and the statements after it
HandleResponse ==
    /\ pc = "response"
    /\ verdicts' = verdicts \o RunStmts(ResponseStmts(response.keys), 1)
    /\ pc' = "exited"
    /\ UNCHANGED <<task_args, elastic_found, module_params, connects, connected,
                   params, requests, response, excep, status_checks>>

\* variant: the handler's message leaves out the exception's text
ExceptHandler_NoText ==
    /\ pc = "except"
    /\ verdicts' = Append(verdicts, fail_json(<<"Elastic error">>))
    /\ pc' = "exited"
    /\ UNCHANGED <<task_args, elastic_found, module_params, connects, connected,
                   params, requests, response, excep, status_checks>>

\* except Exception as excep: module.fail_json(msg="Elastic error: %s" % to_native(excep))
ExceptHandler ==
    /\ pc = "except"
    /\ verdicts' = Append(verdicts, fail_json(ElasticErrorMsg(excep[1])))
    /\ pc' = "exited"
    /\ UNCHANGED <<task_args, elastic_found, module_params, connects, connected,
                   params, requests, response, excep, status_checks>>

Next ==
    \/ Construct
    \/ CheckLib
    \/ Connect
    \/ BuildParams
    \/ Health
    \/ HandleResponse
    \/ ExceptHandler

Spec == Init /\ [][Next]_vars

----------------------------------------------------------------------------
(* Calls of elastic_status on every pair of statuses *)

InitStatus ==
    /\ task_args = [k \in OptionNames |-> Absent]
    /\ elastic_found = TRUE
    /\ pc = "construct"
    /\ module_params = [k \in OptionNames |-> PyNone]
    /\ connects = 0
    /\ connected = "no"
    /\ params = [k \in {} |-> PyNone]
    /\ requests = <<>>
    /\ response = NoResponse
    /\ excep = <<>>
    /\ verdicts = <<>>
    /\ status_checks = {}

CallElasticStatus ==
    /\ \E d \in Statuses, c \in Statuses :
          status_checks' = status_checks \cup {<<d, c, elastic_status(d, c)>>}
    /\ UNCHANGED <<task_args, elastic_found, pc, module_params, connects,
                   connected, params, requests, response, excep, verdicts>>

NextStatus == CallElasticStatus

SpecStatus == InitStatus /\ [][NextStatus]_vars

----------------------------------------------------------------------------
(* Properties *)

Exited == pc = "exited"

\* the message holds the text as one of its pieces
Contains(msg, text) == \E i \in 1..Len(msg) : msg[i] = text

NoSuccess == \A i \in 1..Len(verdicts) : verdicts[i].kind # "exit_json"

StatusReturned == response.kind = "return" /\ "status" \in response.keys

StatusMissing == response.kind = "return" /\ "status" \notin response.keys

\* C1: when the library is available, connecting succeeds and the health call
\* returns a mapping with a 'status' field, the run ends with the one verdict
\* exit_json(changed=False) and never reports failure.
C1_SuccessWhenStatusPresent ==
    (elastic_found /\ connected = "ok" /\ StatusReturned)
        => /\ \A i \in 1..Len(verdicts) : verdicts[i].kind # "fail_json"
           /\ Exited => /\ Len(verdicts) = 1
                        /\ verdicts[1].kind = "exit_json"
                        /\ verdicts[1].changed = "False"

\* C2: when the health call returns a mapping without a 'status' field, the run
\* ends with fail_json carrying the fixed "did not supply a status field"
\* message, and never reports success.
C2_FailWhenStatusMissing ==
    StatusMissing
        => /\ NoSuccess
           /\ Exited => verdicts = <<fail_json(NoStatusMsg)>>

C2_Witness ==
    /\ Exited
    /\ StatusMissing
    /\ verdicts = <<fail_json(NoStatusMsg)>>

\* C3: when connecting or the health call raises an error with text E, the run
\* ends with fail_json whose message contains E, and never reports success.
C3_FailCarriesErrorText ==
    (excep # <<>>)
        => /\ NoSuccess
           /\ Exited => /\ Len(verdicts) = 1
                        /\ verdicts[1].kind = "fail_json"
                        /\ Contains(verdicts[1].msg, excep[1])

C3_Witness ==
    /\ Exited
    /\ response.kind = "raise"
    /\ excep = <<"AuthenticationException(401)">>
    /\ Contains(verdicts[1].msg, "AuthenticationException(401)")

\* C4: a run delivers at most one verdict, a finished run exactly one, a run
\* that is not finished can go on, an exit_json verdict has changed=False and
\* no verdict has changed=True.
C4_ExactlyOneVerdict ==
    /\ Len(verdicts) <= 1
    /\ Exited => Len(verdicts) = 1
    /\ ~Exited => verdicts = <<>> /\ ENABLED Next
    /\ \A i \in 1..Len(verdicts) :
          /\ verdicts[i].changed # "True"
          /\ verdicts[i].kind = "exit_json" => verdicts[i].changed = "False"

C4_Witness ==
    /\ Exited
    /\ Len(requests) = 1
    /\ StatusReturned
    /\ Len(verdicts) = 1

\* C5: the health request is issued at most once in a run, and exactly once in
\* a finished run in which connecting succeeded; once it has returned or raised
\* no further request is issued.
C5_OneHealthRequest ==
    /\ Len(requests) <= 1
    /\ (Exited /\ elastic_found /\ connected = "ok") => Len(requests) = 1
    /\ response.kind # "none" => Len(requests) = 1

C5_Witness ==
    /\ Exited
    /\ connected = "ok"
    /\ response.kind = "raise"
    /\ Len(requests) = 1

\* C6: when the client library is unavailable no connect and no health request
\* is ever made, and the run ends with one fail_json: the missing-library
\* message when the task's options were valid.
C6_MissingLibBeforeNetwork ==
    ~elastic_found
        => /\ connects = 0
           /\ requests = <<>>
           /\ Exited => /\ Len(verdicts) = 1
                        /\ verdicts[1].kind = "fail_json"
                        /\ ArgsValid(task_args) => verdicts[1].msg = MissingLibMsg

C6_Witness ==
    /\ Exited
    /\ ~elastic_found
    /\ verdicts = <<fail_json(MissingLibMsg)>>
    /\ connects = 0

\* C7: in every health request each of local, wait_for_no_initializing_shards
\* and wait_for_no_relocating_shards is the string "true" or "false" matching
\* the option's value, never a native boolean.
C7_BooleansAsStrings ==
    \A i \in 1..Len(requests) : \A k \in BoolOptions :
        requests[i][k] =
            PyStr(IF module_params[k] = PyBool(TRUE) THEN "true" ELSE "false")

\* C8: in every health request, an option without default (wait_for_events,
\* wait_for_nodes, wait_for_status) that the caller did not supply has no entry,
\* and one the caller supplied has an entry with the supplied value.
C8_UnsuppliedOptionsOmitted ==
    \A i \in 1..Len(requests) :
        \A k \in {"wait_for_events", "wait_for_nodes", "wait_for_status"} :
            IF task_args[k] = Absent
            THEN k \notin DOMAIN requests[i]
            ELSE k \in DOMAIN requests[i] /\ requests[i][k] = task_args[k]

\* the ranking the specification gives
ClaimedOrdinal(s) == CASE s = "red" -> 0 [] s = "yellow" -> 1 [] s = "green" -> 2

\* C9: for each of the nine pairs (desired, actual) of red, yellow, green,
\* elastic_status(desired, actual) is true exactly when
\* ordinal(desired) <= ordinal(actual) with red=0 < yellow=1 < green=2.
C9_StatusOrdering ==
    \A t \in status_checks :
        t[3] = (ClaimedOrdinal(t[1]) <= ClaimedOrdinal(t[2]))

C9_Witness ==
    /\ <<"yellow", "green", TRUE>> \in status_checks
    /\ <<"green", "yellow", FALSE>> \in status_checks
    /\ <<"red", "red", TRUE>> \in status_checks
    /\ Cardinality(status_checks) = 9

ClaimedLevels == {"cluster", "indices", "shards"}

\* C10: level accepts exactly cluster, indices and shards (default cluster): a
\* run with one of them is not rejected for its level and sends that level in
\* the health request; a run with any other level never makes a request.
C10_LevelChoices ==
    LET lv == task_args["level"] IN
    IF lv = Absent \/ lv[2] \in ClaimedLevels
    THEN /\ \A i \in 1..Len(verdicts) : verdicts[i].msg # ChoiceMsg("level")
         /\ \A i \in 1..Len(requests) :
               requests[i]["level"] = (IF lv = Absent THEN PyStr("cluster") ELSE lv)
    ELSE requests = <<>>

====
